---- MODULE Spec2Model ----
(***************************************************************************)
(* Model of crates/core/src/server/app_packaging.rs: the WebApp container  *)
(* (metadata + compressed web archive), its flat envelope (pack /          *)
(* TryFrom<&[u8]>) and the archive accessors (unpack / get_file).          *)
(*                                                                         *)
(* Representation of Vec<u8> / &[u8]: a byte sequence is kept run-length   *)
(* encoded, as a sequence of runs <<byte, count>> with count >= 1 and no   *)
(* two adjacent runs of the same byte.  The representation is canonical,   *)
(* so equality of two values is byte-for-byte equality of the sequences,   *)
(* and it lets the model hold buffers of 1024 and 104857600 bytes, the     *)
(* real caps of the parser.                                                *)
(***************************************************************************)
EXTENDS Integers, Sequences, FiniteSets, TLC

(***************************************************************************)
(* Byte sequences (Vec<u8>, &[u8]).                                        *)
(***************************************************************************)
RECURSIVE BLen(_)
\* Vec::len / slice::len
BLen(s) == IF s = <<>> THEN 0 ELSE s[1][2] + BLen(Tail(s))

\* vec![b; n]
Rep(b, n) == IF n = 0 THEN <<>> ELSE << <<b, n>> >>

\* Vec::append: the bytes of s followed by the bytes of t
BCat(s, t) ==
  IF s = <<>> THEN t
  ELSE IF t = <<>> THEN s
  ELSE IF s[Len(s)][1] = t[1][1]
       THEN SubSeq(s, 1, Len(s) - 1)
              \o << <<t[1][1], s[Len(s)][2] + t[1][2]>> >> \o Tail(t)
       ELSE s \o t

RECURSIVE BTake(_, _)
\* &s[..k] (all of s when k exceeds its length)
BTake(s, k) ==
  IF k <= 0 \/ s = <<>> THEN <<>>
  ELSE IF s[1][2] <= k THEN <<s[1]>> \o BTake(Tail(s), k - s[1][2])
       ELSE << <<s[1][1], k>> >>

RECURSIVE BDrop(_, _)
\* &s[k..] (empty when k exceeds its length)
BDrop(s, k) ==
  IF k <= 0 \/ s = <<>> THEN s
  ELSE IF s[1][2] <= k THEN BDrop(Tail(s), k - s[1][2])
       ELSE << <<s[1][1], s[1][2] - k>> >> \o Tail(s)

\* &s[pos..pos+n]
BSlice(s, pos, n) == BTake(BDrop(s, pos), n)

RECURSIVE BAt(_, _)
\* s[i], 0-based; only used with i < BLen(s)
BAt(s, i) == IF i < s[1][2] THEN s[1][1] ELSE BAt(Tail(s), i - s[1][2])

RECURSIVE Expand(_)
\* the bytes of a (short) byte sequence, one element per byte
Expand(s) ==
  IF s = <<>> THEN <<>>
  ELSE IF s[1][2] = 1 THEN <<s[1][1]>> \o Expand(Tail(s))
       ELSE <<s[1][1]>> \o Expand(<< <<s[1][1], s[1][2] - 1>> >> \o Tail(s))

RECURSIVE FromSeq(_)
\* the byte sequence holding the bytes of a plain sequence
FromSeq(q) == IF q = <<>> THEN <<>> ELSE BCat(Rep(q[1], 1), FromSeq(Tail(q)))

(***************************************************************************)
(* WebApp and its errors.                                                  *)
(***************************************************************************)
\* absence of a WebApp value (before construction, after pack consumed it)
NoApp == [metadata |-> <<>>, web |-> <<>>, live |-> FALSE]

\* struct WebApp { metadata, web }
WebApp(m, w) == [metadata |-> m, web |-> w, live |-> TRUE]

\* enum WebContractError: the three variants
ErrorKinds == {"UnpackingError", "StoringError", "FileNotFound"}

\* const MAX_METADATA_SIZE: u64 = 1024
MAX_METADATA_SIZE == 1024

\* const MAX_WEB_SIZE: u64 = 1024 * 1024 * 100
MAX_WEB_SIZE == 1024 * 1024 * 100

(***************************************************************************)
(* byteorder: u64 big-endian.  A u64 read from a buffer is kept as its 8   *)
(* base-256 digits, most significant first, because a hostile length field *)
(* can hold any value below 2^64.  Lengths written by pack are lengths of  *)
(* buffers of the model, all below 2^31, so their four high bytes are 0.   *)
(***************************************************************************)
\* write_u64 in little-endian order
write_u64_le(n) ==
  FromSeq(<<n % 256, (n \div 256) % 256, (n \div 65536) % 256,
            (n \div 16777216) % 256, 0, 0, 0, 0>>)

\* WriteBytesExt::write_u64::<BigEndian>(n)
write_u64(n) ==
  FromSeq(<<0, 0, 0, 0,
            (n \div 16777216) % 256, (n \div 65536) % 256,
            (n \div 256) % 256, n % 256>>)

\* the value of the low four digits of a u64 whose high 33 bits are zero
U64ToNat(d) == ((d[5] * 256 + d[6]) * 256 + d[7]) * 256 + d[8]

\* d >= cap in place of d > cap
U64Ge(d, cap) ==
  \/ d[1] # 0 \/ d[2] # 0 \/ d[3] # 0 \/ d[4] # 0
  \/ d[5] >= 128
  \/ U64ToNat(d) >= cap

\* d > cap on u64, for a cap below 2^31
U64Gt(d, cap) ==
  \/ d[1] # 0 \/ d[2] # 0 \/ d[3] # 0 \/ d[4] # 0
  \/ d[5] >= 128
  \/ U64ToNat(d) > cap

(***************************************************************************)
(* std::io::Cursor<&[u8]>.  readHi is the number of leading bytes of the   *)
(* underlying slice that some read has touched (one past the highest index *)
(* read).                                                                  *)
(***************************************************************************)
\* Cursor::new
Cursor_new(state) == [inner |-> state, pos |-> 0, readHi |-> 0]

\* a read_exact that copies n bytes without comparing n with what remains
\* (what lies past the end of the input reads as zero bytes)
read_exact_unchecked(c, n) ==
  LET have == BSlice(c.inner, c.pos, n) IN
  [ok |-> TRUE, data |-> BCat(have, Rep(0, n - BLen(have))),
   cur |-> [c EXCEPT !.pos = c.pos + n, !.readHi = c.pos + n]]

\* Read::read_exact on the cursor: all n bytes, or UnexpectedEof and no copy
read_exact(c, n) ==
  IF BLen(c.inner) - c.pos < n
  THEN [ok |-> FALSE, data |-> <<>>,
        cur |-> [c EXCEPT !.pos = BLen(c.inner)]]
  ELSE [ok |-> TRUE, data |-> BSlice(c.inner, c.pos, n),
        cur |-> [c EXCEPT !.pos = c.pos + n, !.readHi = c.pos + n]]

\* ReadBytesExt::read_u64::<BigEndian>: read_exact of 8 bytes
read_u64(c) ==
  LET r == read_exact(c, 8)
  IN  [ok |-> r.ok, val |-> Expand(r.data), cur |-> r.cur]

(***************************************************************************)
(* pack and TryFrom<&[u8]>.                                                *)
(***************************************************************************)
\* pack that writes the web length field as a copy of the metadata length
pack_same_len(self) ==
  BCat(BCat(BCat(write_u64(BLen(self.metadata)), self.metadata),
            write_u64(BLen(self.metadata))), self.web)

\* WebApp::pack
pack(self) ==
  LET o1 == write_u64(BLen(self.metadata))
      o2 == BCat(o1, self.metadata)
      o3 == BCat(o2, write_u64(BLen(self.web)))
  IN  BCat(o3, self.web)

\* no allocation made
NoAlloc == -1

\* an outcome that is an error whenever bytes remain after the web payload
ParseOut_strict(tag, stage, app, ma, wa, cur) ==
  IF tag = "Ok" /\ cur.pos < BLen(cur.inner)
  THEN [tag |-> "UnpackingError", stage |-> "trailing", app |-> NoApp,
        metaAlloc |-> ma, webAlloc |-> wa, readHi |-> cur.readHi]
  ELSE [tag |-> tag, stage |-> stage, app |-> app,
        metaAlloc |-> ma, webAlloc |-> wa, readHi |-> cur.readHi]

\* the outcome of try_from: the Result, plus what the execution did
\* (buffers allocated, bytes of the input read, the step that failed)
ParseOut(tag, stage, app, ma, wa, cur) ==
  [tag |-> tag, stage |-> stage, app |-> app,
   metaAlloc |-> ma, webAlloc |-> wa, readHi |-> cur.readHi]

\* impl TryFrom<&[u8]> for WebApp
try_from(state) ==
  LET c0 == Cursor_new(state)
      r1 == read_u64(c0)
  IN
  IF ~r1.ok
  THEN ParseOut("UnpackingError", "metadata_size", NoApp, NoAlloc, NoAlloc, r1.cur)
  ELSE IF U64Gt(r1.val, MAX_METADATA_SIZE)
  THEN ParseOut("UnpackingError", "metadata_cap", NoApp, NoAlloc, NoAlloc, r1.cur)
  ELSE
  LET msize == U64ToNat(r1.val)
      r2 == read_exact(r1.cur, msize)
  IN
  IF ~r2.ok
  THEN ParseOut("UnpackingError", "metadata", NoApp, msize, NoAlloc, r2.cur)
  ELSE
  LET r3 == read_u64(r2.cur)
  IN
  IF ~r3.ok
  THEN ParseOut("UnpackingError", "web_size", NoApp, msize, NoAlloc, r3.cur)
  ELSE IF U64Gt(r3.val, MAX_WEB_SIZE)
  THEN ParseOut("UnpackingError", "web_cap", NoApp, msize, NoAlloc, r3.cur)
  ELSE
  LET wsize == U64ToNat(r3.val)
      r4 == read_exact(r3.cur, wsize)
  IN
  IF ~r4.ok
  THEN ParseOut("UnpackingError", "web", NoApp, msize, wsize, r4.cur)
  ELSE ParseOut("Ok", "done", WebApp(r2.data, r4.data), msize, wsize, r4.cur)

(***************************************************************************)
(* The compressed archive held in web.  xz2 and tar are external crates;   *)
(* their streams are abstracted to a byte format with the same reading     *)
(* discipline (single pass, errors surface when the reader reaches them):  *)
(*   compressed stream := XzMagic  tar-stream                              *)
(*   tar-stream        := entry*  EndMark  (anything)                      *)
(*   entry             := header-byte  size-byte  size content bytes       *)
(* A header byte is a path: a name in Names, a byte of LossyBytes (a path  *)
(* that is not UTF-8), or PathErrByte (a header whose path() fails); any   *)
(* other byte is a corrupt header.  End of input before EndMark is the     *)
(* decoder's "premature eof".                                              *)
(***************************************************************************)
\* number of distinct entry names
NPaths == 2

\* the entry names: the header byte k stands for the k-th name
Names == 1 .. NPaths

\* first byte of an xz stream
XzMagic == 253

\* the end-of-archive marker written by Builder::into_inner
EndMark == 0

\* header bytes whose path is not valid UTF-8
LossyBytes == {200, 201}

\* header byte of an entry whose path() returns Err
PathErrByte == 210

\* the string to_string_lossy yields for a path that is not UTF-8
ReplacementString == 65533

\* Cow<str> of Path::to_string_lossy
to_string_lossy(h) == IF h \in LossyBytes THEN ReplacementString ELSE h

\* Entry::path(): Ok(path) or Err
entry_path(h) == [ok |-> h # PathErrByte, path |-> h]

\* the larger of two positions
Max(a, b) == IF a >= b THEN a ELSE b

\* XzEncoder::new(.., 6) read to its end: the compressed form of a tar stream
xz_encode(tar) == BCat(Rep(XzMagic, 1), tar)

RECURSIVE tar_append(_)
\* Builder::append_data for each entry of a builder, in order
tar_append(es) ==
  IF es = <<>> THEN <<>>
  ELSE BCat(BCat(FromSeq(<<es[1].path, Len(es[1].data)>>), FromSeq(es[1].data)),
            tar_append(Tail(es)))

\* Builder::into_inner: the entries followed by the end-of-archive marker
tar_finish(es) == BCat(tar_append(es), Rep(EndMark, 1))

\* Archive::new(XzDecoder::new(web)): pos is the offset in the tar stream,
\* readHi the number of leading bytes of web the decoder has consumed
Archive_new(web) == [src |-> web, pos |-> 0, readHi |-> 0]

\* Archive::entries(): refuses an archive that is not at position 0
entries_ok(ar) == ar.pos = 0

\* Entries::next: the next header of the stream (the reader stands on it)
next_entry(ar) ==
  LET n == BLen(ar.src)
      at == ar.pos + 1
      fail(hi) == [kind |-> "Err", hdr |-> 0, size |-> 0,
                   ar |-> [ar EXCEPT !.readHi = Max(ar.readHi, hi)]]
  IN
  IF n = 0 THEN fail(0)
  ELSE IF BAt(ar.src, 0) # XzMagic THEN fail(1)
  ELSE IF at >= n THEN fail(n)
  ELSE
  LET h == BAt(ar.src, at) IN
  IF h = EndMark
  THEN [kind |-> "None", hdr |-> 0, size |-> 0,
        ar |-> [ar EXCEPT !.pos = ar.pos + 1, !.readHi = Max(ar.readHi, at + 1)]]
  ELSE IF h \notin (Names \cup LossyBytes \cup {PathErrByte}) THEN fail(at + 1)
  ELSE IF at + 1 >= n THEN fail(n)
  ELSE [kind |-> "Entry", hdr |-> h, size |-> BAt(ar.src, at + 1),
        ar |-> [ar EXCEPT !.pos = ar.pos + 2, !.readHi = Max(ar.readHi, at + 2)]]

\* Read::read_to_end on an entry, and the skip of an entry's content that
\* the iterator does before the next header: both consume size bytes
entry_data(ar, size) ==
  LET n == BLen(ar.src)
      at == ar.pos + 1
  IN
  IF at + size > n
  THEN [ok |-> FALSE, data |-> <<>>,
        ar |-> [ar EXCEPT !.pos = n - 1, !.readHi = Max(ar.readHi, n)]]
  ELSE [ok |-> TRUE, data |-> BSlice(ar.src, at, size),
        ar |-> [ar EXCEPT !.pos = ar.pos + size,
                          !.readHi = Max(ar.readHi, at + size)]]

RECURSIVE log_entries(_)
\* decode_web's diagnostic loop `for entry in entries.flatten()`: every
\* header is visited, errors are dropped, the loop ends at the end marker
\* or at the first error; the result is the archive as the loop leaves it
log_entries(ar) ==
  LET e == next_entry(ar) IN
  IF e.kind # "Entry" THEN e.ar
  ELSE LET s == entry_data(e.ar, e.size) IN
       IF s.ok THEN log_entries(s.ar) ELSE s.ar

\* decode_web returning the archive its diagnostic loop has consumed
decode_web_reuse(self) ==
  LET archive == Archive_new(self.web)
      logged == IF entries_ok(archive) THEN log_entries(archive) ELSE archive
  IN  [archive |-> logged, logged |-> logged]

\* WebApp::decode_web: the diagnostic loop runs on one archive, which is
\* dropped (kept here as logged, to see how far it read); the archive
\* returned is a fresh one over the same bytes
decode_web(self) ==
  LET archive == Archive_new(self.web)
      logged == IF entries_ok(archive) THEN log_entries(archive) ELSE archive
  IN  [archive |-> Archive_new(self.web), logged |-> logged]

\* the outcome of get_file: the Result (bytes, or the error and the path it
\* names), plus how many items the scan took from the iterator and how far
\* into web the scan (scanHi) and the diagnostic decoder (logHi) read
GetOut(tag, bytes, path, visited, ar, logHi) ==
  [tag |-> tag, bytes |-> bytes, path |-> path, visited |-> visited,
   scanHi |-> ar.readHi, logHi |-> logHi]

RECURSIVE scan_entries_flatten(_, _, _, _)
\* the loop of get_file over entries().flatten(): an Err item ends the scan
\* as the end marker does
scan_entries_flatten(ar, path, k, logHi) ==
  LET e == next_entry(ar) IN
  IF e.kind # "Entry" THEN GetOut("FileNotFound", <<>>, path, k, e.ar, logHi)
  ELSE
  LET p == entry_path(e.hdr)
      r == entry_data(e.ar, e.size)
  IN
  IF p.ok /\ to_string_lossy(p.path) = path
  THEN IF r.ok THEN GetOut("Ok", r.data, 0, k + 1, r.ar, logHi)
       ELSE GetOut("UnpackingError", <<>>, 0, k + 1, r.ar, logHi)
  ELSE IF r.ok THEN scan_entries_flatten(r.ar, path, k + 1, logHi)
       ELSE GetOut("FileNotFound", <<>>, path, k + 1, r.ar, logHi)

RECURSIVE scan_entries(_, _, _, _)
\* the for loop of get_file over decoded_web.entries()
scan_entries(ar, path, k, logHi) ==
  LET e == next_entry(ar) IN
  IF e.kind = "None" THEN GetOut("FileNotFound", <<>>, path, k, e.ar, logHi)
  ELSE IF e.kind = "Err" THEN GetOut("UnpackingError", <<>>, 0, k + 1, e.ar, logHi)
  ELSE
  LET p == entry_path(e.hdr)
      r == entry_data(e.ar, e.size)
  IN
  IF p.ok /\ to_string_lossy(p.path) = path
  THEN IF r.ok THEN GetOut("Ok", r.data, 0, k + 1, r.ar, logHi)
       ELSE GetOut("UnpackingError", <<>>, 0, k + 1, r.ar, logHi)
  ELSE IF r.ok THEN scan_entries(r.ar, path, k + 1, logHi)
       ELSE GetOut("UnpackingError", <<>>, 0, k + 2, r.ar, logHi)

\* WebApp::get_file
get_file(self, path) ==
  LET decoded_web == decode_web(self) IN
  IF ~entries_ok(decoded_web.archive)
  THEN GetOut("UnpackingError", <<>>, 0, 0, decoded_web.archive,
              decoded_web.logged.readHi)
  ELSE scan_entries(decoded_web.archive, path, 0, decoded_web.logged.readHi)

(***************************************************************************)
(* The destination directory of unpack: a set of <<name, content>> pairs,  *)
(* one per file.  The filesystem may fail when the directory is prepared   *)
(* (failAt = 0) or when the k-th entry's file is created (failAt = k).     *)
(***************************************************************************)
\* fs::File::create + write: the file name holds exactly data afterwards
fs_write(dir, name, data) ==
  {f \in dir : f[1] # name} \cup {<<name, data>>}

\* the outcome of Archive::unpack: Ok or Err(io::Error), the directory as
\* it is left, and whether the io::Error came from the filesystem or from
\* reading the archive
UnpackOut(ok, cause, dir) == [ok |-> ok, cause |-> cause, dir |-> dir]

RECURSIVE unpack_entries(_, _, _, _)
\* the loop of tar::Archive::unpack over the entries, k counting them
unpack_entries(ar, dir, failAt, k) ==
  LET e == next_entry(ar) IN
  IF e.kind = "None" THEN UnpackOut(TRUE, "none", dir)
  ELSE IF e.kind = "Err" THEN UnpackOut(FALSE, "archive", dir)
  ELSE IF ~entry_path(e.hdr).ok THEN UnpackOut(FALSE, "archive", dir)
  ELSE IF failAt = k THEN UnpackOut(FALSE, "filesystem", dir)
  ELSE
  LET r == entry_data(e.ar, e.size) IN
  IF r.ok THEN unpack_entries(r.ar, fs_write(dir, e.hdr, r.data), failAt, k + 1)
  ELSE UnpackOut(FALSE, "archive",
                 fs_write(dir, e.hdr, BSlice(ar.src, e.ar.pos + 1, e.size)))

\* tar::Archive::unpack(dst)
archive_unpack(ar, dir, failAt) ==
  IF failAt = 0 THEN UnpackOut(FALSE, "filesystem", dir)
  ELSE IF ~entries_ok(ar) THEN UnpackOut(FALSE, "archive", dir)
  ELSE unpack_entries(ar, dir, failAt, 1)

\* WebApp::unpack: every Err of Archive::unpack becomes a StoringError
unpack(self, dir, failAt) ==
  LET decoded_web == decode_web(self)
      u == archive_unpack(decoded_web.archive, dir, failAt)
  IN  [tag |-> IF u.ok THEN "Ok" ELSE "StoringError",
       cause |-> u.cause, dir |-> u.dir]

RECURSIVE archive_listing(_)
\* the archive as tar presents it: the entries that can be read in full, in
\* order (header byte, content, offset in web where the entry ends), and
\* whether the stream then ends with the end marker or with a defect
archive_listing(ar) ==
  LET e == next_entry(ar) IN
  IF e.kind = "None" THEN [items |-> <<>>, ending |-> "end"]
  ELSE IF e.kind = "Err" THEN [items |-> <<>>, ending |-> "defect"]
  ELSE
  LET r == entry_data(e.ar, e.size) IN
  IF ~r.ok THEN [items |-> <<>>, ending |-> "defect"]
  ELSE LET rest == archive_listing(r.ar) IN
       [items |-> << [hdr |-> e.hdr, data |-> r.data,
                      endOff |-> r.ar.readHi] >> \o rest.items,
        ending |-> rest.ending]

\* WebApp::from_data: finalize the builder, compress at level 6
from_data(metadata, es) == WebApp(metadata, xz_encode(tar_finish(es)))

\* from_compressed that keeps at most MAX_METADATA_SIZE bytes of metadata
from_compressed_capped(metadata, compressed_web) ==
  WebApp(BTake(metadata, MAX_METADATA_SIZE), compressed_web)

\* WebApp::from_compressed
from_compressed(metadata, compressed_web) == WebApp(metadata, compressed_web)

(***************************************************************************)
(* Inputs.                                                                 *)
(***************************************************************************)
\* longest archive a producer builds
MaxEntries == 2

\* how far from either end of an envelope the store may cut it
MaxCut == 9

\* metadata given to the constructors: empty, b"v1", at the cap, above it
MetadataInputs ==
  { <<>>, FromSeq(<<118, 49>>),
    Rep(7, MAX_METADATA_SIZE),
    BCat(Rep(0, MAX_METADATA_SIZE - 1), Rep(9, 1)),
    Rep(7, MAX_METADATA_SIZE + 1) }

\* entries a producer appends to a Builder
EntryInputs ==
  { [path |-> 1, data |-> <<60, 62>>],
    [path |-> 1, data |-> <<9>>],
    [path |-> NPaths, data |-> <<>>] }

\* the Builders given to from_data: up to MaxEntries entries
BuilderInputs ==
  UNION { [1 .. n -> EntryInputs] : n \in 0 .. MaxEntries }

\* what may follow the entries of a stream: the end marker, nothing
\* (premature eof), a corrupt header, an entry whose content is cut short,
\* a header cut short, an entry whose path() fails and then a good one
TailInputs ==
  { <<EndMark>>, <<>>, <<255>>, <<1, 5, 60>>, <<1>>,
    <<PathErrByte, 0, 201, 1, 62, EndMark>> }

\* the entries that precede those tails
HeadInputs ==
  { <<>>,
    << [path |-> 1, data |-> <<60, 62>>] >>,
    << [path |-> NPaths, data |-> <<7>>], [path |-> 1, data |-> <<60, 62>>] >>,
    << [path |-> 1, data |-> <<60, 62>>], [path |-> 1, data |-> <<9>>] >> }

\* compressed bytes given to from_compressed in the archive scenarios:
\* streams with and without a defect, no bytes at all, a tar stream that
\* was never compressed
ArchiveWebInputs ==
  { xz_encode(BCat(tar_append(es), FromSeq(t))) :
      es \in HeadInputs, t \in TailInputs }
  \cup { <<>>, FromSeq(<<1, 1, 60, EndMark>>) }

\* compressed bytes given to from_compressed in the envelope scenarios:
\* empty, a small archive, exactly the cap, one byte above it
CodecWebInputs ==
  { <<>>, FromSeq(<<XzMagic, 1, 2, 60, 62, EndMark>>),
    BCat(FromSeq(<<XzMagic, 1, 1, 60>>), Rep(EndMark, MAX_WEB_SIZE - 4)),
    Rep(255, MAX_WEB_SIZE + 1) }

\* requested paths: every name, and the replacement string
PathInputs == Names \cup {ReplacementString}

\* buffers a store may hand to the parser that no pack produced
StateInputs ==
  { <<>>,
    Rep(255, 8),
    FromSeq(<<0, 0, 0, 1, 0, 0, 0, 0>>),
    FromSeq(<<0, 0, 0, 0, 128, 0, 0, 0>>),
    write_u64(MAX_METADATA_SIZE + 1),
    write_u64(MAX_METADATA_SIZE),
    BCat(write_u64(0), write_u64(MAX_WEB_SIZE + 1)),
    BCat(write_u64(0), write_u64(MAX_WEB_SIZE)),
    BCat(write_u64(0), Rep(255, 8)),
    BCat(write_u64(MAX_METADATA_SIZE + 1), Rep(7, MAX_METADATA_SIZE + 1)),
    BCat(BCat(write_u64(1), Rep(7, 1)),
         BCat(write_u64(MAX_WEB_SIZE + 1), Rep(255, MAX_WEB_SIZE + 1))) }

\* bytes a store may leave after an envelope
TrailingInputs == { Rep(0, 1), FromSeq(<<1, 2, 3>>), Rep(255, MAX_WEB_SIZE) }

\* states of the destination directory before unpack: empty, or holding a
\* file under the first name
DstInputs == { {}, { <<1, FromSeq(<<99>>)>> } }

\* no filesystem failure
NoFail == MaxEntries + 4

\* where the filesystem fails during unpack
FailInputs == (0 .. MaxEntries) \cup {NoFail}

(***************************************************************************)
(* State.                                                                  *)
(***************************************************************************)
VARIABLES
  app,     \* the WebApp value the caller holds (NoApp: none)
  orig,    \* that value as it was when constructed or parsed
  buf,     \* the flat buffer: pack's output, or the state a store supplies
  origin,  \* where buf comes from: "none", "pack", "store", "cut", "extended"
  packed,  \* the WebApp that pack consumed to produce buf (NoApp otherwise)
  dst,     \* the destination directory after the last unpack
  res      \* the last operation and its result

vars == <<app, orig, buf, origin, packed, dst, res>>

\* a result with every field at its default
Res0 ==
  [op |-> "init", tag |-> "Ok", path |-> 0, bytes |-> <<>>, arg |-> 0,
   cause |-> "none", stage |-> "none", val |-> NoApp,
   metaAlloc |-> NoAlloc, webAlloc |-> NoAlloc, readHi |-> 0,
   scanHi |-> 0, logHi |-> 0, visited |-> 0, inM |-> <<>>, inW |-> <<>>,
   dir0 |-> {}, prevOp |-> "none", prevTag |-> "none"]

Init ==
  /\ app = NoApp
  /\ orig = NoApp
  /\ buf = <<>>
  /\ origin = "none"
  /\ packed = NoApp
  /\ dst = {}
  /\ res = Res0

(***************************************************************************)
(* Operations.                                                             *)
(***************************************************************************)
\* a caller builds a WebApp from metadata and a Builder
FromData(m, es) ==
  /\ app' = from_data(m, es)
  /\ orig' = app'
  /\ res' = [Res0 EXCEPT !.op = "from_data", !.inM = m, !.val = app']
  /\ UNCHANGED <<buf, origin, packed, dst>>

\* a caller builds a WebApp from metadata and bytes compressed elsewhere
FromCompressed(m, w) ==
  /\ app' = from_compressed(m, w)
  /\ orig' = app'
  /\ res' = [Res0 EXCEPT !.op = "from_compressed", !.inM = m, !.inW = w,
                         !.val = app']
  /\ UNCHANGED <<buf, origin, packed, dst>>

\* a caller packs the value it holds; pack takes the value by move
Pack ==
  /\ app.live
  /\ buf' = pack(app)
  /\ origin' = "pack"
  /\ packed' = app
  /\ app' = NoApp
  /\ orig' = NoApp
  /\ res' = [Res0 EXCEPT !.op = "pack"]
  /\ UNCHANGED dst

\* a caller parses the buffer; on Ok it holds the parsed value
TryFrom ==
  LET out == try_from(buf) IN
  /\ res' = [Res0 EXCEPT !.op = "try_from", !.tag = out.tag,
                         !.stage = out.stage, !.val = out.app,
                         !.metaAlloc = out.metaAlloc,
                         !.webAlloc = out.webAlloc, !.readHi = out.readHi]
  /\ app' = IF out.tag = "Ok" THEN out.app ELSE app
  /\ orig' = IF out.tag = "Ok" THEN out.app ELSE orig
  /\ UNCHANGED <<buf, origin, packed, dst>>

\* the store supplies a buffer that no pack produced
SetState(b) ==
  /\ buf' = b
  /\ origin' = "store"
  /\ packed' = NoApp
  /\ res' = [Res0 EXCEPT !.op = "set_state"]
  /\ UNCHANGED <<app, orig, dst>>

\* the store supplies only the first k bytes of an envelope
Truncate(k) ==
  /\ origin \in {"pack", "store"}
  /\ k >= 0 /\ k < BLen(buf)
  /\ buf' = BTake(buf, k)
  /\ origin' = "cut"
  /\ res' = [Res0 EXCEPT !.op = "truncate", !.arg = k]
  /\ UNCHANGED <<app, orig, packed, dst>>

\* the store supplies an envelope followed by further bytes
AppendTrailing(t) ==
  /\ origin \in {"pack", "store"}
  /\ buf' = BCat(buf, t)
  /\ origin' = "extended"
  /\ res' = [Res0 EXCEPT !.op = "append", !.arg = BLen(buf)]
  /\ UNCHANGED <<app, orig, packed, dst>>

\* the accessor called before this one on the same value, if any
PrevOp == IF res.op \in {"get_file", "unpack"} THEN res.op ELSE "none"

\* and how it ended
PrevTag == IF res.op \in {"get_file", "unpack"} THEN res.tag ELSE "none"

\* get_file that also drops from web the bytes its scan consumed
GetFileConsuming(p) ==
  LET out == get_file(app, p) IN
  /\ app.live
  /\ res' = [Res0 EXCEPT !.op = "get_file", !.tag = out.tag, !.arg = p,
                         !.path = out.path, !.bytes = out.bytes,
                         !.visited = out.visited, !.scanHi = out.scanHi,
                         !.logHi = out.logHi, !.prevOp = PrevOp,
                         !.prevTag = PrevTag]
  /\ app' = [app EXCEPT !.web = BDrop(app.web, out.scanHi)]
  /\ UNCHANGED <<orig, buf, origin, packed, dst>>

\* a caller asks the value it holds for one file
GetFile(p) ==
  LET out == get_file(app, p) IN
  /\ app.live
  /\ res' = [Res0 EXCEPT !.op = "get_file", !.tag = out.tag, !.arg = p,
                         !.path = out.path, !.bytes = out.bytes,
                         !.visited = out.visited, !.scanHi = out.scanHi,
                         !.logHi = out.logHi, !.prevOp = PrevOp,
                         !.prevTag = PrevTag]
  /\ UNCHANGED <<app, orig, buf, origin, packed, dst>>

\* a caller unpacks the value it holds into a directory in state dir0,
\* with the filesystem failing at failAt
Unpack(dir0, failAt) ==
  LET out == unpack(app, dir0, failAt) IN
  /\ app.live
  /\ res' = [Res0 EXCEPT !.op = "unpack", !.tag = out.tag,
                         !.cause = out.cause, !.arg = failAt, !.dir0 = dir0,
                         !.prevOp = PrevOp, !.prevTag = PrevTag]
  /\ dst' = out.dir
  /\ UNCHANGED <<app, orig, buf, origin, packed>>

\* the offsets at which the store may cut the current buffer
CutInputs ==
  (0 .. MaxCut) \cup { BLen(buf) - j : j \in 1 .. MaxCut }

\* metadata used in the archive scenarios
ArchiveMetadataInputs == { FromSeq(<<118, 49>>) }

\* envelope scenarios: construction from compressed bytes, pack, parse, and
\* the buffers a store may supply
NextCodec ==
  \/ \E m \in MetadataInputs, w \in CodecWebInputs : FromCompressed(m, w)
  \/ Pack
  \/ TryFrom
  \/ \E b \in StateInputs : SetState(b)
  \/ \E k \in CutInputs : Truncate(k)
  \/ \E t \in TrailingInputs : AppendTrailing(t)

SpecCodec == Init /\ [][NextCodec]_vars

\* archive scenarios: both constructors and the two accessors
NextArchive ==
  \/ \E m \in ArchiveMetadataInputs, es \in BuilderInputs : FromData(m, es)
  \/ \E m \in ArchiveMetadataInputs, w \in ArchiveWebInputs : FromCompressed(m, w)
  \/ \E p \in PathInputs : GetFile(p)
  \/ \E d \in DstInputs, f \in FailInputs : Unpack(d, f)

SpecArchive == Init /\ [][NextArchive]_vars

(***************************************************************************)
(* Properties of the envelope (SpecCodec).                                 *)
(***************************************************************************)
\* C1: parsing the buffer that pack returned for WebApp{m, w}, with
\* len(m) <= 1024 and len(w) <= 104857600, succeeds and yields a WebApp
\* whose metadata is m and whose web is w, byte for byte.
C1_RoundTrip ==
  ( /\ res.op = "try_from"
    /\ origin = "pack"
    /\ BLen(packed.metadata) <= MAX_METADATA_SIZE
    /\ BLen(packed.web) <= MAX_WEB_SIZE )
  => /\ res.tag = "Ok"
     /\ res.val.live
     /\ res.val.metadata = packed.metadata
     /\ res.val.web = packed.web
     /\ app = res.val

\* C1 witness: a round trip with both fields exactly at their caps
C1_Witness ==
  /\ res.op = "try_from" /\ origin = "pack" /\ res.tag = "Ok"
  /\ BLen(packed.metadata) = MAX_METADATA_SIZE
  /\ BLen(packed.web) = MAX_WEB_SIZE
  /\ app.web = packed.web

\* C2: pack returns the 8-byte big-endian len(m), then m, then the 8-byte
\* big-endian len(w), then w, and nothing else: 16 + len(m) + len(w) bytes;
\* for metadata b"v1" the buffer begins 00 00 00 00 00 00 00 02 'v' '1'.
C2_PackLayout ==
  res.op = "pack" =>
    LET m == packed.metadata
        w == packed.web
        ml == BLen(m)
        wl == BLen(w)
        d1 == Expand(BSlice(buf, 0, 8))
        d2 == Expand(BSlice(buf, 8 + ml, 8))
        be(d) == d[5] * 16777216 + d[6] * 65536 + d[7] * 256 + d[8]
        hi0(d) == d[1] = 0 /\ d[2] = 0 /\ d[3] = 0 /\ d[4] = 0
    IN  /\ BLen(buf) = 16 + ml + wl
        /\ Len(d1) = 8 /\ hi0(d1) /\ be(d1) = ml
        /\ BSlice(buf, 8, ml) = m
        /\ Len(d2) = 8 /\ hi0(d2) /\ be(d2) = wl
        /\ BDrop(buf, 16 + ml) = w
        /\ (m = FromSeq(<<118, 49>>) =>
              Expand(BTake(buf, 10)) = <<0, 0, 0, 0, 0, 0, 0, 2, 118, 49>>)

\* C2 witness: pack of metadata b"v1" with a web payload of 104857600 bytes
C2_Witness ==
  /\ res.op = "pack"
  /\ packed.metadata = FromSeq(<<118, 49>>)
  /\ BLen(packed.web) = MAX_WEB_SIZE
  /\ BLen(buf) = 16 + 2 + MAX_WEB_SIZE

\* C3: a declared metadata_length above 1024, or web_length above
\* 104857600, is rejected with an UnpackingError before the buffer of that
\* size is allocated; a declared length equal to the cap passes the cap
\* check; no parse allocates a metadata buffer above 1024 bytes or a web
\* buffer above 104857600 bytes, whatever follows the length field.
C3_CapEnforcement ==
  res.op = "try_from" =>
    LET n == BLen(buf)
        low(d) == d[5] * 16777216 + d[6] * 65536 + d[7] * 256 + d[8]
        over(d, cap) ==
          \/ d[1] + d[2] + d[3] + d[4] > 0
          \/ d[5] >= 128
          \/ low(d) > cap
        dm == Expand(BSlice(buf, 0, 8))
    IN
    /\ res.metaAlloc <= MAX_METADATA_SIZE
    /\ res.webAlloc <= MAX_WEB_SIZE
    /\ (n >= 8 /\ over(dm, MAX_METADATA_SIZE)) =>
          /\ res.tag = "UnpackingError"
          /\ res.metaAlloc = NoAlloc /\ res.webAlloc = NoAlloc
    /\ (n >= 8 /\ ~over(dm, MAX_METADATA_SIZE)) =>
          /\ res.stage # "metadata_cap"
          /\ res.metaAlloc = low(dm)
          /\ (n >= 16 + low(dm)) =>
               LET dw == Expand(BSlice(buf, 8 + low(dm), 8)) IN
               /\ over(dw, MAX_WEB_SIZE) =>
                    /\ res.tag = "UnpackingError"
                    /\ res.webAlloc = NoAlloc
               /\ ~over(dw, MAX_WEB_SIZE) =>
                    /\ res.stage # "web_cap"
                    /\ res.webAlloc = low(dw)

\* C3 witness: a declared web_length of exactly the cap passes the check
\* and the buffer is allocated although no payload follows
C3_Witness ==
  /\ res.op = "try_from"
  /\ res.stage = "web"
  /\ res.webAlloc = MAX_WEB_SIZE
  /\ BLen(buf) = 16

\* C4: on a buffer that ends before one of the four fields is complete,
\* parse returns an UnpackingError; it never returns a WebApp built from a
\* partly read field and never reads at or beyond the end of the input.
C4_TruncationSafety ==
  res.op = "try_from" =>
    LET n == BLen(buf)
        low(d) == d[5] * 16777216 + d[6] * 65536 + d[7] * 256 + d[8]
        small(d) == d[1] + d[2] + d[3] + d[4] = 0 /\ d[5] < 128
        dm == Expand(BSlice(buf, 0, 8))
        ml == low(dm)
        dw == Expand(BSlice(buf, 8 + ml, 8))
        wl == low(dw)
        complete ==
          /\ n >= 8 /\ small(dm) /\ n >= 8 + ml
          /\ n >= 16 + ml /\ small(dw) /\ n >= 16 + ml + wl
    IN
    /\ res.readHi <= n
    /\ res.tag \in {"Ok", "UnpackingError"}
    /\ res.tag # "Ok" => ~res.val.live
    /\ ~complete => res.tag = "UnpackingError"
    /\ res.tag = "Ok" =>
         /\ complete
         /\ res.val.metadata = BSlice(buf, 8, ml) /\ BLen(res.val.metadata) = ml
         /\ res.val.web = BSlice(buf, 16 + ml, wl) /\ BLen(res.val.web) = wl

\* C4 witness: an envelope cut inside its web payload is rejected
C4_Witness ==
  /\ res.op = "try_from" /\ origin = "cut"
  /\ res.stage = "web" /\ res.tag = "UnpackingError"
  /\ res.webAlloc > 0 /\ BLen(buf) > 16

\* C9: from_compressed(m, w) succeeds for every m and w and holds both
\* verbatim, and pack on it succeeds; parsing that envelope succeeds exactly
\* when len(m) <= 1024 and len(w) <= 104857600, and fails with an
\* UnpackingError otherwise.
C9_NoCapOnProducer ==
  /\ res.op = "from_compressed" =>
       /\ app.live /\ app.metadata = res.inM /\ app.web = res.inW
  /\ res.op = "pack" =>
       /\ res.tag = "Ok"
       /\ BLen(buf) = 16 + BLen(packed.metadata) + BLen(packed.web)
  /\ (res.op = "try_from" /\ origin = "pack") =>
       /\ res.tag = "Ok" <=>
            ( /\ BLen(packed.metadata) <= MAX_METADATA_SIZE
              /\ BLen(packed.web) <= MAX_WEB_SIZE )
       /\ res.tag # "Ok" => res.tag = "UnpackingError"

\* C9 witness: an envelope packed from a web payload one byte above the
\* cap is rejected by the parser
C9_Witness ==
  /\ res.op = "try_from" /\ origin = "pack"
  /\ BLen(packed.web) = MAX_WEB_SIZE + 1
  /\ BLen(packed.metadata) <= MAX_METADATA_SIZE
  /\ res.tag = "UnpackingError"

\* C10: when parse succeeds on b it succeeds on b followed by any bytes t,
\* with the same metadata and web; pack of the parsed value is the prefix
\* of b of length 16 + metadata_length + web_length, and is b itself only
\* when nothing follows the web payload.
C10_TrailingIgnored ==
  (res.op = "try_from" /\ res.tag = "Ok") =>
    LET k == 16 + BLen(app.metadata) + BLen(app.web) IN
    /\ \A t \in TrailingInputs :
         LET b == try_from(BCat(buf, t)) IN
         b.tag = "Ok" /\ b.app = app
    /\ pack(app) = BTake(buf, k)
    /\ (pack(app) = buf) <=> (BLen(buf) = k)

\* C10 witness: a successful parse of an envelope with bytes after it
C10_Witness ==
  /\ res.op = "try_from" /\ res.tag = "Ok" /\ origin = "extended"
  /\ BLen(buf) > 16 + BLen(app.metadata) + BLen(app.web)

(***************************************************************************)
(* Properties of the archive accessors (SpecArchive).                      *)
(***************************************************************************)
\* C5: after any earlier get_file and unpack calls on a WebApp value,
\* get_file(p) returns what it returns as the first call on that value,
\* a successful unpack materializes every entry of the archive, and neither
\* operation changes metadata or web.
C5_RepeatableExtraction ==
  /\ app.live => app = orig
  /\ res.op = "get_file" =>
       LET first == get_file(orig, res.arg) IN
       /\ res.tag = first.tag /\ res.bytes = first.bytes
       /\ res.path = first.path
  /\ (res.op = "unpack" /\ res.tag = "Ok") =>
       LET L == archive_listing(Archive_new(orig.web)) IN
       /\ L.ending = "end"
       /\ \A i \in 1 .. Len(L.items) :
            \E j \in i .. Len(L.items) :
              /\ L.items[j].hdr = L.items[i].hdr
              /\ \A l \in (j + 1) .. Len(L.items) :
                   L.items[l].hdr # L.items[i].hdr
              /\ <<L.items[j].hdr, L.items[j].data>> \in dst

\* C5 witness: unpack succeeds on an archive of two entries right after a
\* successful get_file on the same value
C5_Witness ==
  /\ res.op = "unpack" /\ res.tag = "Ok"
  /\ res.prevOp = "get_file" /\ res.prevTag = "Ok"
  /\ Len(archive_listing(Archive_new(app.web)).items) >= 2
  /\ Cardinality(dst) >= 2

\* C6 as claimed: on a well-formed archive with no entry whose path equals
\* the requested path get_file returns FileNotFound carrying that path; on
\* bytes that are not a valid compressed archive it returns an
\* UnpackingError for any requested path.
C6_Claimed ==
  res.op = "get_file" =>
    LET L == archive_listing(Archive_new(app.web))
        M == { i \in 1 .. Len(L.items) : L.items[i].hdr = res.arg }
    IN
    /\ (L.ending = "end" /\ M = {}) =>
          res.tag = "FileNotFound" /\ res.path = res.arg
    /\ L.ending = "defect" => res.tag = "UnpackingError"

\* C6 amended: on a well-formed archive with no entry whose path, as
\* to_string_lossy renders it, equals the requested path, get_file returns
\* FileNotFound carrying that path; on bytes that are not a valid
\* compressed archive it never returns FileNotFound: it returns an
\* UnpackingError, unless an entry with the requested path precedes the
\* first defect, and then it returns the content of an entry.
C6_NotFoundVsCorruption ==
  res.op = "get_file" =>
    LET L == archive_listing(Archive_new(app.web))
        M == { i \in 1 .. Len(L.items) :
                 /\ entry_path(L.items[i].hdr).ok
                 /\ to_string_lossy(L.items[i].hdr) = res.arg }
    IN
    /\ (L.ending = "end" /\ M = {}) =>
          res.tag = "FileNotFound" /\ res.path = res.arg
    /\ L.ending = "defect" =>
          /\ res.tag # "FileNotFound"
          /\ M = {} => res.tag = "UnpackingError"
          /\ M # {} => res.tag = "Ok"

\* C6 witness: a request for a path that no entry before the defect has
C6_Witness ==
  /\ res.op = "get_file" /\ res.tag = "UnpackingError"
  /\ LET L == archive_listing(Archive_new(app.web)) IN
     /\ L.ending = "defect"
     /\ Len(L.items) >= 1
     /\ \A i \in 1 .. Len(L.items) : L.items[i].hdr # res.arg

\* C7 as claimed: a StoringError from unpack always wraps a filesystem
\* failure; a failure caused by the stored bytes is an UnpackingError.
C7_Claimed ==
  res.op = "unpack" =>
    /\ res.tag = "StoringError" => res.cause = "filesystem"
    /\ res.cause = "archive" => res.tag = "UnpackingError"

\* C8 as claimed: get_file returns the content of the first entry whose
\* stored path equals the requested string exactly; entries after the match
\* are never read; an error is returned only for a defect reached before
\* any match.
C8_Claimed ==
  res.op = "get_file" =>
    LET L == archive_listing(Archive_new(app.web))
        M == { i \in 1 .. Len(L.items) : L.items[i].hdr = res.arg }
        first == CHOOSE i \in M : \A j \in M : i <= j
    IN
    /\ M # {} =>
         /\ res.tag = "Ok" /\ res.bytes = L.items[first].data
         /\ first < Len(L.items) =>
              /\ res.scanHi <= L.items[first].endOff
              /\ res.logHi <= L.items[first].endOff
    /\ M = {} => res.tag # "Ok"

\* C8 amended: get_file returns the content of the first entry whose
\* stored path, as to_string_lossy renders it, equals the requested string,
\* and its scan stops at the end of that entry; the entries after the match
\* are read only by the diagnostic pass of decode_web, whose outcome is
\* dropped, so a defect after the match does not affect the result; an
\* error is returned only for a defect reached before any match.
C8_FirstMatch ==
  res.op = "get_file" =>
    LET L == archive_listing(Archive_new(app.web))
        M == { i \in 1 .. Len(L.items) :
                 /\ entry_path(L.items[i].hdr).ok
                 /\ to_string_lossy(L.items[i].hdr) = res.arg }
        first == CHOOSE i \in M : \A j \in M : i <= j
    IN
    /\ M # {} =>
         /\ res.tag = "Ok" /\ res.bytes = L.items[first].data
         /\ res.scanHi = L.items[first].endOff
         /\ res.visited = first
    /\ M = {} => res.tag # "Ok"
    /\ res.tag = "UnpackingError" => (M = {} /\ L.ending = "defect")

\* C8 witness: two entries share the requested path, a defect follows
\* them, and the content returned is the earlier entry's
C8_Witness ==
  /\ res.op = "get_file" /\ res.tag = "Ok"
  /\ LET L == archive_listing(Archive_new(app.web)) IN
     /\ L.ending = "defect"
     /\ \E i, j \in 1 .. Len(L.items) :
          /\ i < j
          /\ L.items[i].hdr = res.arg /\ L.items[j].hdr = res.arg
          /\ L.items[i].data # L.items[j].data
          /\ res.bytes = L.items[i].data

====
